---- MODULE Spec2Model ----
(***************************************************************************)
(* Model of the f-ts command line dispatcher (src/src/main.ts): the        *)
(* command registry, the fuzzy matcher, the ranking resolver, the          *)
(* interactive selector loop of promptForCommand and the routing of main.  *)
(* Text is modelled as sequences of one-character strings so that          *)
(* trimming, lower-casing, tokenising, parseInt and indexOf are computed   *)
(* the way the code computes them.                                         *)
(***************************************************************************)
EXTENDS Integers, Sequences, FiniteSets, TLC

(* ---------------------------------------------------------------------- *)
(* Bounds                                                                  *)
(* ---------------------------------------------------------------------- *)

\* Largest number of input lines one interactive session reads.
MaxLinesRead == 3

(* ---------------------------------------------------------------------- *)
(* Characters and strings                                                  *)
(* ---------------------------------------------------------------------- *)

UpperAlphabet ==
  <<"A","B","C","D","E","F","G","H","I","J","K","L","M",
    "N","O","P","Q","R","S","T","U","V","W","X","Y","Z">>

LowerAlphabet ==
  <<"a","b","c","d","e","f","g","h","i","j","k","l","m",
    "n","o","p","q","r","s","t","u","v","w","x","y","z">>

Digits == <<"0","1","2","3","4","5","6","7","8","9">>

UpperLetters == {UpperAlphabet[i] : i \in 1..26}

\* The lower-case letter of each upper-case letter.
lowerOf ==
  [c \in UpperLetters |-> LowerAlphabet[CHOOSE i \in 1..26 : UpperAlphabet[i] = c]]

\* String.prototype.toLowerCase on one character.
toLowerChar(c) == IF c \in UpperLetters THEN lowerOf[c] ELSE c

\* String.prototype.toLowerCase.
toLowerCase(s) == [i \in 1..Len(s) |-> toLowerChar(s[i])]

\* The characters matched by \s, and stripped by trim, among those modelled.
isWhitespace(c) == c \in {" ", "\t"}

isDigit(c) == \E i \in 1..10 : Digits[i] = c

digitValue(c) == (CHOOSE i \in 1..10 : Digits[i] = c) - 1

RECURSIVE trimStart(_)
trimStart(s) ==
  IF s # <<>> /\ isWhitespace(Head(s)) THEN trimStart(Tail(s)) ELSE s

RECURSIVE trimEnd(_)
trimEnd(s) ==
  IF s # <<>> /\ isWhitespace(s[Len(s)])
  THEN trimEnd(SubSeq(s, 1, Len(s) - 1))
  ELSE s

\* A trim that removes nothing.
trimNothing(s) == s

\* String.prototype.trim.
trim(s) == trimEnd(trimStart(s))

\* replace(/\s+/g, ""): every whitespace character removed.
stripWhitespace(s) == SelectSeq(s, LAMBDA c : ~isWhitespace(c))

\* split(/\s+/).filter(token => token.length > 0): the maximal runs of
\* non-whitespace characters, in order.
RECURSIVE splitTokens(_, _)
splitTokens(s, current) ==
  IF s = <<>>
  THEN IF current = <<>> THEN <<>> ELSE <<current>>
  ELSE IF isWhitespace(Head(s))
       THEN (IF current = <<>> THEN <<>> ELSE <<current>>)
            \o splitTokens(Tail(s), <<>>)
       ELSE splitTokens(Tail(s), Append(current, Head(s)))

\* Array.prototype.join(" ").
RECURSIVE joinWithSpace(_)
joinWithSpace(parts) ==
  IF parts = <<>> THEN <<>>
  ELSE IF Len(parts) = 1 THEN parts[1]
  ELSE parts[1] \o <<" ">> \o joinWithSpace(Tail(parts))

\* A search that starts at the beginning whatever the cursor.
RECURSIVE indexOfAnywhere(_, _, _)
indexOfAnywhere(candidate, target, from) ==
  IF \A i \in 1..Len(candidate) : candidate[i] # target THEN -1
  ELSE (CHOOSE i \in 1..Len(candidate) :
          candidate[i] = target /\ \A j \in 1..(i - 1) : candidate[j] # target) - 1

\* String.prototype.indexOf(target, from) for a one-character target, with
\* positions counted from 0 as in the code; -1 when there is no occurrence.
RECURSIVE indexOf(_, _, _)
indexOf(candidate, target, from) ==
  IF from >= Len(candidate) THEN -1
  ELSE IF candidate[from + 1] = target THEN from
  ELSE indexOf(candidate, target, from + 1)

\* The result of Number.parseInt when no number can be read.
NaN == [isNaN |-> TRUE, value |-> 0]

RECURSIVE digitsValue(_, _)
digitsValue(s, acc) ==
  IF s # <<>> /\ isDigit(Head(s))
  THEN digitsValue(Tail(s), 10 * acc + digitValue(Head(s)))
  ELSE acc

\* Number.parseInt(s, 10): leading whitespace is skipped, an optional sign is
\* read, then the longest run of digits; anything after it is ignored.  NaN
\* when no digit is found.
parseInt(s) ==
  LET t    == trimStart(s)
      neg  == t # <<>> /\ Head(t) = "-"
      body == IF t # <<>> /\ Head(t) \in {"-", "+"} THEN Tail(t) ELSE t
  IN  IF body = <<>> \/ ~isDigit(Head(body))
      THEN NaN
      ELSE [isNaN |-> FALSE,
            value |-> IF neg THEN 0 - digitsValue(body, 0) ELSE digitsValue(body, 0)]

\* Number.isInteger, on a result of parseInt.
isInteger(v) == ~v.isNaN

(* ---------------------------------------------------------------------- *)
(* Command registry                                                        *)
(* ---------------------------------------------------------------------- *)

NotFound == [name |-> <<>>, description |-> <<>>, aliases |-> <<>>, run |-> "none"]

\* The registry of the program: the single init command.
commands ==
  << [name |-> <<"i","n","i","t">>,
      description |-> <<"C","r","e","a","t","e"," ","T","a","s","k","f","i","l","e",".","y","m","l"," ","w","i","t","h"," ","d","e","v"," ","t","a","s","k"," ","r","u","n","n","i","n","g"," ","b","u","n"," ","d","e","v">>,
      aliases |-> <<>>,
      run |-> "init"] >>

\* A descriptor whose run behaviour is not known to the dispatcher.
Descriptor(name, description, aliases) ==
  [name |-> name, description |-> description, aliases |-> aliases, run |-> "opaque"]

\* Scenario A of the design: two commands whose names both start with "in".
RegistryTwo ==
  << Descriptor(<<"i","n","s","t","a","l","l">>,
       <<"I","n","s","t","a","l","l"," ","d","e","p","s">>,
       <<>>),
     Descriptor(<<"i","n","f","o">>,
       <<"C","r","e","a","t","e"," ","m","a","n","i","f","e","s","t">>,
       <<>>) >>

\* Six commands that all match the query "i", one of them with aliases.
RegistrySix ==
  << Descriptor(<<"i","m","p","o","r","t">>,
       <<"I","m","p","o","r","t"," ","d","a","t","a">>,
       <<>>),
     Descriptor(<<"i","n","d","e","x">>,
       <<"I","n","d","e","x"," ","f","i","l","e","s">>,
       <<>>),
     Descriptor(<<"i","n","s","p","e","c","t">>,
       <<"I","n","s","p","e","c","t"," ","s","t","a","t","e">>,
       <<<<"i">>, <<"l","o","o","k">>>>),
     Descriptor(<<"i","g","n","o","r","e">>,
       <<"I","g","n","o","r","e"," ","p","a","t","h","s">>,
       <<>>),
     Descriptor(<<"i","s","s","u","e">>,
       <<"O","p","e","n"," ","i","t","e","m">>,
       <<>>),
     Descriptor(<<"i","d","l","e">>,
       <<"W","a","i","t"," ","i","n"," ","l","o","o","p">>,
       <<>>) >>

\* The registries the dispatcher is run with: none, the program's own, and
\* larger ones that make the selector present a list.
Registries == { <<>>, commands, commands \o RegistryTwo, RegistrySix }

\* findCommand: the first descriptor whose name, or one of whose aliases,
\* equals the lower-cased input.
findCommand(input, definitions) ==
  LET normalized == toLowerCase(input)
      matches(command) ==
        \/ command.name = normalized
        \/ \E i \in 1..Len(command.aliases) : command.aliases[i] = normalized
  IN  IF \E i \in 1..Len(definitions) : matches(definitions[i])
      THEN definitions[CHOOSE i \in 1..Len(definitions) :
                         /\ matches(definitions[i])
                         /\ \A j \in 1..(i - 1) : ~matches(definitions[j])]
      ELSE NotFound

(* ---------------------------------------------------------------------- *)
(* Matcher and resolver                                                    *)
(* ---------------------------------------------------------------------- *)

\* buildSearchText: name, the aliases joined by spaces, and the description,
\* separated by single spaces and lower-cased.
buildSearchText(command) ==
  toLowerCase(command.name \o <<" ">> \o joinWithSpace(command.aliases)
              \o <<" ">> \o command.description)

\* The loop without the bonus for a match at the cursor.
RECURSIVE fuzzyScoreFromFlat(_, _, _, _)
fuzzyScoreFromFlat(rest, candidate, candidateIndex, score) ==
  IF rest = <<>> THEN score
  ELSE LET matchIndex == indexOf(candidate, toLowerChar(Head(rest)), candidateIndex)
       IN  IF matchIndex = -1 THEN -1
           ELSE fuzzyScoreFromFlat(Tail(rest), candidate, matchIndex + 1, score + 1)

\* The loop of fuzzyScore over the remaining characters of the query.
RECURSIVE fuzzyScoreFrom(_, _, _, _)
fuzzyScoreFrom(rest, candidate, candidateIndex, score) ==
  IF rest = <<>> THEN score
  ELSE LET matchIndex == indexOf(candidate, toLowerChar(Head(rest)), candidateIndex)
       IN  IF matchIndex = -1 THEN -1
           ELSE fuzzyScoreFrom(Tail(rest), candidate, matchIndex + 1,
                               score + (IF matchIndex = candidateIndex THEN 2 ELSE 1))

\* fuzzyScore: -1 when the query is empty or is not a subsequence.
fuzzyScore(query, candidate) ==
  LET normalizedQuery == stripWhitespace(toLowerCase(query))
  IN  IF normalizedQuery = <<>> THEN -1
      ELSE fuzzyScoreFrom(normalizedQuery, candidate, 0, 0)

\* The order of the modelled characters at the first level of the collation
\* used by String.prototype.localeCompare: space, punctuation, digits, letters
\* without regard to case.
CollationOrder ==
  <<" ", "\t", "-", ".","0","1","2","3","4","5","6","7","8","9">> \o LowerAlphabet

collationKey(c) ==
  LET l == toLowerChar(c)
  IN  IF \E i \in 1..Len(CollationOrder) : CollationOrder[i] = l
      THEN CHOOSE i \in 1..Len(CollationOrder) : CollationOrder[i] = l
      ELSE 0

RECURSIVE comparePrimary(_, _)
comparePrimary(a, b) ==
  IF a = <<>> THEN (IF b = <<>> THEN 0 ELSE -1)
  ELSE IF b = <<>> THEN 1
  ELSE IF collationKey(Head(a)) < collationKey(Head(b)) THEN -1
  ELSE IF collationKey(Head(a)) > collationKey(Head(b)) THEN 1
  ELSE comparePrimary(Tail(a), Tail(b))

\* Strings equal at the first level: lower case sorts before upper case at the
\* first position where the case differs.
RECURSIVE compareCase(_, _)
compareCase(a, b) ==
  IF a = <<>> \/ b = <<>> THEN 0
  ELSE IF Head(a) = Head(b) THEN compareCase(Tail(a), Tail(b))
  ELSE IF toLowerChar(Head(a)) = Head(a) THEN -1 ELSE 1

\* String.prototype.localeCompare: negative, zero or positive.
localeCompare(a, b) ==
  IF comparePrimary(a, b) # 0 THEN comparePrimary(a, b) ELSE compareCase(a, b)

\* A comparator that looks at the scores only.
compareScores(a, b) == b.score - a.score

\* The comparator handed to sort in rankCommands.
compareEntries(a, b) ==
  IF b.score # a.score THEN b.score - a.score
  ELSE localeCompare(a.command.name, b.command.name)

\* The sum over the tokens that match, the others left out.
RECURSIVE scoreMatchingTokens(_, _, _)
scoreMatchingTokens(tokens, searchText, score) ==
  IF tokens = <<>> THEN score
  ELSE LET tokenScore == fuzzyScore(Head(tokens), searchText)
       IN  scoreMatchingTokens(Tail(tokens), searchText,
                               score + (IF tokenScore < 0 THEN 0 ELSE tokenScore))

\* One descriptor's entry: the sum of the per-token scores, or -1 as soon as
\* one token does not match.
RECURSIVE scoreTokens(_, _, _)
scoreTokens(tokens, searchText, score) ==
  IF tokens = <<>> THEN score
  ELSE LET tokenScore == fuzzyScore(Head(tokens), searchText)
       IN  IF tokenScore < 0 THEN -1
           ELSE scoreTokens(Tail(tokens), searchText, score + tokenScore)

\* Insertion of one entry into a sorted list, behind every entry that does not
\* compare greater (Array.prototype.sort is stable).
RECURSIVE insertSorted(_, _)
insertSorted(sorted, entry) ==
  IF sorted = <<>> THEN <<entry>>
  ELSE IF compareEntries(Head(sorted), entry) <= 0
       THEN <<Head(sorted)>> \o insertSorted(Tail(sorted), entry)
       ELSE <<entry>> \o sorted

RECURSIVE sortEntries(_, _)
sortEntries(entries, sorted) ==
  IF entries = <<>> THEN sorted
  ELSE sortEntries(Tail(entries), insertSorted(sorted, Head(entries)))

\* rankCommands: the matching descriptors with their scores, best first.
rankCommands(query, definitions) ==
  LET tokens == SelectSeq(splitTokens(toLowerCase(query), <<>>),
                          LAMBDA token : Len(token) > 0)
      entry(command) ==
        [command |-> command,
         score |-> scoreTokens(tokens, buildSearchText(command), 0)]
      entries == [i \in 1..Len(definitions) |-> entry(definitions[i])]
  IN  IF Len(tokens) = 0 THEN <<>>
      ELSE sortEntries(SelectSeq(entries, LAMBDA e : e.score >= 0), <<>>)

\* suggestClosestCommand: the best ranked descriptor, if any.
suggestClosestCommand(input, definitions) ==
  LET ranked == rankCommands(input, definitions)
  IN  IF ranked # <<>> THEN ranked[1].command ELSE NotFound

(* ---------------------------------------------------------------------- *)
(* Inputs                                                                  *)
(* ---------------------------------------------------------------------- *)

\* The lines a user may type at either prompt (without the line terminator).
InputLines ==
  { <<>>,
    <<" ">>,
    <<"i">>,
    <<"i","n">>,
    <<"i"," ","n">>,
    <<"x","y","z">>,
    <<"d","e","p","s">>,
    <<"l","o","o","k">>,
    <<"1">>,
    <<"2">>,
    <<"5">>,
    <<"6">>,
    <<"0">>,
    <<"a","b","c">>,
    <<"1","x">>,
    <<" ","2"," ">>,
    <<"-","1">> }

\* The argument vectors: process.argv.slice(2).
ArgVectors ==
  { <<>>,
    <<<<"i","n","i","t">>>>,
    <<<<"I","N","I","T">>>>,
    <<<<"i","n","i","t">>, <<"-","-","h","e","l","p">>>>,
    <<<<"i","n","i","t">>, <<"x">>, <<"-","h">>>>,
    <<<<"i","n","i","t">>, <<"x">>>>,
    <<<<"i","n","s","t","a","l","l">>>>,
    <<<<"i","n","s","t","a","l","l">>, <<"x">>, <<"y">>>>,
    <<<<"i","n","s","t","a","l","l">>, <<"-","h">>, <<"x">>>>,
    <<<<"l","o","o","k">>, <<"x">>>>,
    <<<<"-","-","v","e","r","s","i","o","n">>>>,
    <<<<"-","v">>>>,
    <<<<"-","-","h","e","l","p">>>>,
    <<<<"-","h">>>>,
    <<<<"h","e","l","p">>>>,
    <<<<"h","e","l","p">>, <<"i","n","i","t">>>>,
    <<<<"h","e","l","p">>, <<"x","y","z">>>>,
    <<<<"h","e","l","p">>, <<"i","n">>>>,
    <<<<"h","e","l","p">>, <<>>>>,
    <<<<"h","e","l","p">>, <<"i","n","s","p","e","c","t">>, <<"x">>>>,
    <<<<"x","y","z">>>>,
    <<<<"i","n">>>>,
    <<<<"-","-","v","e","r","s","i","o","n">>, <<"x">>>>,
    <<<<>>>> }

\* The states of the working directory that init may find: package.json is
\* missing, unreadable, not JSON, without a dev script, with a dev script of
\* whitespace only (blankdev), or usable; Taskfile.yml
\* is absent or already there; the directory can be written or not; writes
\* counts the calls of writeFileSync.
FileSystems ==
  { [packageJson |-> "missing",    taskfile |-> "absent",   writable |-> TRUE, writes |-> 0],
    [packageJson |-> "unreadable", taskfile |-> "absent",   writable |-> TRUE, writes |-> 0],
    [packageJson |-> "invalid",    taskfile |-> "existing", writable |-> TRUE, writes |-> 0],
    [packageJson |-> "nodev",      taskfile |-> "absent",   writable |-> TRUE, writes |-> 0],
    [packageJson |-> "blankdev",   taskfile |-> "absent",   writable |-> TRUE, writes |-> 0],
    [packageJson |-> "ok",         taskfile |-> "existing", writable |-> TRUE, writes |-> 0],
    [packageJson |-> "ok",         taskfile |-> "absent",   writable |-> FALSE, writes |-> 0],
    [packageJson |-> "ok",         taskfile |-> "absent",   writable |-> TRUE, writes |-> 0] }

(* ---------------------------------------------------------------------- *)
(* State                                                                   *)
(* ---------------------------------------------------------------------- *)

VARIABLES
  args,          \* process.argv.slice(2)
  stdinIsTTY,    \* process.stdin.isTTY
  stdoutIsTTY,   \* process.stdout.isTTY
  definitions,   \* the command registry
  files,         \* the working directory, as init sees it
  pc,            \* where main is: start, awaitQuery, awaitSelection,
                 \* prompted, running, suspended, done
  rlOpen,        \* the readline interface exists and is not closed
  rlCreated,     \* number of createInterface calls
  term,          \* the trimmed query of the current loop iteration
  suggestions,   \* the list presented by the current loop iteration
  lastLine,      \* the line the last answered question delivered
  linesRead,     \* number of questions answered
  inputEnded,    \* the input stream has ended
  selection,     \* what promptForCommand returned
  runCommand,    \* the descriptor whose run was invoked
  runArgs,       \* the arguments run was invoked with
  runCount,      \* number of run invocations
  raised,        \* a run raised
  out,           \* what the last step wrote to standard output
  stderr,        \* everything written to the error stream
  exitCode,      \* process.exitCode (0 while unset)
  call           \* one application of a function of the resolver, with its result

vars ==
  << args, stdinIsTTY, stdoutIsTTY, definitions, files, pc, rlOpen, rlCreated,
     term, suggestions, lastLine, linesRead, inputEnded, selection, runCommand,
     runArgs, runCount, raised, out, stderr, exitCode, call >>

\* A line on standard output or on the error stream.
Line(kind, index, name) == [kind |-> kind, index |-> index, name |-> name]

\* No function of the resolver is applied on its own.
NoCall ==
  [op |-> "none", query |-> <<>>, text |-> <<>>, registry |-> <<>>,
   returned |-> FALSE, found |-> NotFound, ranked |-> <<>>, score |-> 0]

Init ==
  /\ call = NoCall
  /\ args \in ArgVectors
  /\ stdinIsTTY \in BOOLEAN
  /\ stdoutIsTTY \in BOOLEAN
  /\ definitions \in Registries
  /\ files \in FileSystems
  /\ pc = "start"
  /\ rlOpen = FALSE
  /\ rlCreated = 0
  /\ term = <<>>
  /\ suggestions = <<>>
  /\ lastLine = <<>>
  /\ linesRead = 0
  /\ inputEnded = FALSE
  /\ selection = NotFound
  /\ runCommand = NotFound
  /\ runArgs = <<>>
  /\ runCount = 0
  /\ raised = FALSE
  /\ out = <<>>
  /\ stderr = <<>>
  /\ exitCode = 0

(* ---------------------------------------------------------------------- *)
(* Output                                                                  *)
(* ---------------------------------------------------------------------- *)

\* printGeneralHelp: the banner and one line per command.
printGeneralHelp ==
  <<Line("general help", 0, <<>>)>>
  \o [i \in 1..Len(definitions) |-> Line("command", i, definitions[i].name)]

\* printCommandHelp.
printCommandHelp(command) == <<Line("command help", 0, command.name)>>

\* The listing promptForCommand prints before its first prompt.
printAvailable ==
  <<Line("available", 0, <<>>)>>
  \o [i \in 1..Len(definitions) |-> Line("command", i, definitions[i].name)]

\* The numbered list of matches, numbered from 1.
printMatches(list) ==
  <<Line("matches", 0, <<>>)>>
  \o [i \in 1..Len(list) |-> Line("match", i, list[i].command.name)]

\* The report without the suggestion.
reportUnknownOnly(name) == <<Line("Unknown command", 0, name)>>

\* The two lines of the unknown-command report: the second only when there is
\* a closest command.
reportUnknown(name) ==
  LET suggestion == suggestClosestCommand(name, definitions)
  IN  <<Line("Unknown command", 0, name)>>
      \o (IF suggestion # NotFound
          THEN <<Line("Did you mean", 0, suggestion.name)>>
          ELSE <<>>)

(* ---------------------------------------------------------------------- *)
(* main                                                                    *)
(* ---------------------------------------------------------------------- *)

\* A terminal on one of the two streams only.
eitherIsTTY(in, o) == in \/ o

\* The interactive path is taken only when both streams are terminals.
isInteractive(in, o) == ~(~in \/ ~o)

isVersionFlag(a) == Len(a) = 1 /\ (a[1] = <<"-","-","v","e","r","s","i","o","n">> \/ a[1] = <<"-","v">>)

isHelpFlag(a) == Len(a) = 1 /\ (a[1] = <<"-","-","h","e","l","p">> \/ a[1] = <<"-","h">>)

isHelpCommand(a) == Len(a) >= 1 /\ a[1] = <<"h","e","l","p">>

\* Only the first of the remaining arguments is looked at.
firstIsHelp(commandArgs) ==
  /\ commandArgs # <<>>
  /\ (commandArgs[1] = <<"-","-","h","e","l","p">> \/ commandArgs[1] = <<"-","h">>)

\* commandArgs.some(value => value === "--help" || value === "-h").
someIsHelp(commandArgs) ==
  \E i \in 1..Len(commandArgs) :
    commandArgs[i] = <<"-","-","h","e","l","p">> \/ commandArgs[i] = <<"-","h">>

\* The arguments reach the last part of main: a command name and its arguments.
isCommandLine(a) ==
  Len(a) >= 1 /\ ~isVersionFlag(a) /\ ~isHelpFlag(a) /\ ~isHelpCommand(a)

\* The value process.exitCode is set to on a failure.
FailureExitCode == 1

\* The exit code is left as it was.
exitCodeKept(code) == code

\* process.exitCode = 1 after the unknown-command report.
exitCodeOnUnknown(code) == FailureExitCode

\* run is invoked a second time.
executeCommandTwice(command, commandArgs) ==
  /\ runCommand' = command
  /\ runArgs' = commandArgs
  /\ runCount' = runCount + 2
  /\ pc' = "running"

\* executeCommand: run is invoked and main waits for it.
executeCommand(command, commandArgs) ==
  /\ runCommand' = command
  /\ runArgs' = commandArgs
  /\ runCount' = runCount + 1
  /\ pc' = "running"

\* Zero arguments without a terminal on both streams: general help.
mainNotInteractive ==
  /\ pc = "start"
  /\ Len(args) = 0
  /\ ~isInteractive(stdinIsTTY, stdoutIsTTY)
  /\ out' = printGeneralHelp
  /\ pc' = "done"
  /\ UNCHANGED << call, args, stdinIsTTY, stdoutIsTTY, definitions, files, rlOpen,
                  rlCreated, term, suggestions, lastLine, linesRead, inputEnded, selection,
                  runCommand, runArgs, runCount, raised, stderr, exitCode >>

\* Zero arguments on a terminal: promptForCommand up to its first question,
\* or its immediate return when there is no command.
promptForCommand ==
  /\ pc = "start"
  /\ Len(args) = 0
  /\ isInteractive(stdinIsTTY, stdoutIsTTY)
  /\ IF Len(definitions) = 0
     THEN /\ selection' = NotFound
          /\ pc' = "prompted"
          /\ UNCHANGED << rlOpen, rlCreated, out >>
     ELSE /\ out' = printAvailable
          /\ rlOpen' = TRUE
          /\ rlCreated' = rlCreated + 1
          /\ pc' = "awaitQuery"
          /\ UNCHANGED selection
  /\ UNCHANGED << call, args, stdinIsTTY, stdoutIsTTY, definitions, files, term,
                  suggestions, lastLine, linesRead, inputEnded, runCommand, runArgs,
                  runCount, raised, stderr, exitCode >>

\* --version or -v alone.
mainVersion ==
  /\ pc = "start"
  /\ isVersionFlag(args)
  /\ out' = <<Line("version", 0, <<>>)>>
  /\ pc' = "done"
  /\ UNCHANGED << call, args, stdinIsTTY, stdoutIsTTY, definitions, files, rlOpen,
                  rlCreated, term, suggestions, lastLine, linesRead, inputEnded, selection,
                  runCommand, runArgs, runCount, raised, stderr, exitCode >>

\* --help or -h alone.
mainHelpFlag ==
  /\ pc = "start"
  /\ isHelpFlag(args)
  /\ out' = printGeneralHelp
  /\ pc' = "done"
  /\ UNCHANGED << call, args, stdinIsTTY, stdoutIsTTY, definitions, files, rlOpen,
                  rlCreated, term, suggestions, lastLine, linesRead, inputEnded, selection,
                  runCommand, runArgs, runCount, raised, stderr, exitCode >>

\* help [target]: general help, the target's help, or the unknown report.
mainHelpCommand ==
  /\ pc = "start"
  /\ isHelpCommand(args)
  /\ IF Len(args) < 2 \/ args[2] = <<>>
     THEN /\ out' = printGeneralHelp
          /\ UNCHANGED << stderr, exitCode >>
     ELSE IF findCommand(args[2], definitions) = NotFound
     THEN /\ stderr' = stderr \o reportUnknown(args[2])
          /\ exitCode' = exitCodeOnUnknown(exitCode)
          /\ out' = <<>>
     ELSE /\ out' = printCommandHelp(findCommand(args[2], definitions))
          /\ UNCHANGED << stderr, exitCode >>
  /\ pc' = "done"
  /\ UNCHANGED << call, args, stdinIsTTY, stdoutIsTTY, definitions, files, rlOpen,
                  rlCreated, term, suggestions, lastLine, linesRead, inputEnded, selection,
                  runCommand, runArgs, runCount, raised >>

\* The first argument is no registered command.
mainUnknownCommand ==
  /\ pc = "start"
  /\ isCommandLine(args)
  /\ findCommand(args[1], definitions) = NotFound
  /\ stderr' = stderr \o reportUnknown(args[1])
  /\ exitCode' = exitCodeOnUnknown(exitCode)
  /\ out' = <<>>
  /\ pc' = "done"
  /\ UNCHANGED << call, args, stdinIsTTY, stdoutIsTTY, definitions, files, rlOpen,
                  rlCreated, term, suggestions, lastLine, linesRead, inputEnded, selection,
                  runCommand, runArgs, runCount, raised >>

\* A registered command with --help or -h among its arguments.
mainCommandHelp ==
  /\ pc = "start"
  /\ isCommandLine(args)
  /\ findCommand(args[1], definitions) # NotFound
  /\ someIsHelp(Tail(args))
  /\ out' = printCommandHelp(findCommand(args[1], definitions))
  /\ pc' = "done"
  /\ UNCHANGED << call, args, stdinIsTTY, stdoutIsTTY, definitions, files, rlOpen,
                  rlCreated, term, suggestions, lastLine, linesRead, inputEnded, selection,
                  runCommand, runArgs, runCount, raised, stderr, exitCode >>

\* A registered command: its run is invoked with the remaining arguments.
mainExecute ==
  /\ pc = "start"
  /\ isCommandLine(args)
  /\ findCommand(args[1], definitions) # NotFound
  /\ ~someIsHelp(Tail(args))
  /\ executeCommand(findCommand(args[1], definitions), Tail(args))
  /\ out' = <<>>
  /\ UNCHANGED << call, args, stdinIsTTY, stdoutIsTTY, definitions, files, rlOpen,
                  rlCreated, term, suggestions, lastLine, linesRead, inputEnded, selection,
                  raised, stderr, exitCode >>

(* ---------------------------------------------------------------------- *)
(* promptForCommand: the selector loop                                     *)
(* ---------------------------------------------------------------------- *)

\* The most candidates the selector presents.
MaxSuggestions == 5

\* Every ranked candidate, however many.
allRanked(ranked) == ranked

\* ranked.slice(0, Math.min(5, ranked.length)).
topSuggestions(ranked) ==
  SubSeq(ranked, 1, IF Len(ranked) < MaxSuggestions THEN Len(ranked) ELSE MaxSuggestions)

\* The entry before the one the number names.
entryBefore(list, number) == list[IF number > 1 THEN number - 1 ELSE Len(list)].command

\* suggestions[selection - 1]?.command, for a number counted from 1.
chosenEntry(list, number) == list[number].command

\* A finally block that leaves the interface as it is.
rlLeftAsIs(open) == open

\* rl.close() in the finally block.
rlClose(open) == FALSE

\* selection >= 1 && selection <= suggestions.length, on an integer.
isValidSelection(v, list) == isInteger(v) /\ v.value >= 1 /\ v.value <= Len(list)

\* promptForCommand returns: the finally block runs and main resumes later.
returnFromPrompt(command) ==
  /\ selection' = command
  /\ rlOpen' = rlClose(rlOpen)
  /\ suggestions' = <<>>
  /\ pc' = "prompted"

\* The question at the top of the loop is answered with a line.
questionQuery ==
  /\ pc = "awaitQuery"
  /\ linesRead < MaxLinesRead
  /\ \E line \in InputLines :
       LET ranked == rankCommands(trim(line), definitions)
       IN  /\ lastLine' = line
           /\ linesRead' = linesRead + 1
           /\ term' = trim(line)
           /\ IF trim(line) = <<>>
              THEN /\ returnFromPrompt(NotFound)
                   /\ out' = <<>>
              ELSE IF Len(ranked) = 0
              THEN /\ out' = <<Line("no match", 0, <<>>)>>
                   /\ suggestions' = <<>>
                   /\ pc' = "awaitQuery"
                   /\ UNCHANGED << selection, rlOpen >>
              ELSE IF Len(ranked) = 1
              THEN /\ returnFromPrompt(ranked[1].command)
                   /\ out' = <<>>
              ELSE /\ suggestions' = topSuggestions(ranked)
                   /\ out' = printMatches(topSuggestions(ranked))
                   /\ pc' = "awaitSelection"
                   /\ UNCHANGED << selection, rlOpen >>
  /\ UNCHANGED << call, args, stdinIsTTY, stdoutIsTTY, definitions, files, rlCreated,
                  inputEnded,                   runCommand, runArgs, runCount, raised, stderr, exitCode >>

\* The selector keeps waiting for a selection.
stayAtSelection == "awaitSelection"

\* continue after an empty answer: the loop asks for a query next.
afterEmptySelection == "awaitQuery"

\* The question under a presented list is answered with a line.  After an
\* empty answer, and after an invalid one, the loop starts over with the
\* question at its top.
questionSelection ==
  /\ pc = "awaitSelection"
  /\ linesRead < MaxLinesRead
  /\ \E line \in InputLines :
       LET selectionRaw == trim(line)
           number == parseInt(selectionRaw)
       IN  /\ lastLine' = line
           /\ linesRead' = linesRead + 1
           /\ IF selectionRaw = <<>>
              THEN /\ out' = <<>>
                   /\ suggestions' = <<>>
                   /\ pc' = afterEmptySelection
                   /\ UNCHANGED << selection, rlOpen >>
              ELSE IF isValidSelection(number, suggestions)
              THEN /\ returnFromPrompt(chosenEntry(suggestions, number.value))
                   /\ out' = <<>>
              ELSE /\ out' = <<Line("invalid selection", 0, <<>>)>>
                   /\ suggestions' = <<>>
                   /\ pc' = "awaitQuery"
                   /\ UNCHANGED << selection, rlOpen >>
  /\ UNCHANGED << call, args, stdinIsTTY, stdoutIsTTY, definitions, files, rlCreated,
                  term, inputEnded, runCommand, runArgs, runCount, raised, stderr, exitCode >>

\* The input stream ends while a question is pending.  The interface closes
\* itself; the promise of the pending question is resolved by nothing but the
\* callback given to rl.question, which is not called, so promptForCommand is
\* never resumed.
inputClosed ==
  /\ pc \in {"awaitQuery", "awaitSelection"}
  /\ inputEnded' = TRUE
  /\ rlOpen' = FALSE
  /\ pc' = "suspended"
  /\ out' = <<>>
  /\ UNCHANGED << call, args, stdinIsTTY, stdoutIsTTY, definitions, files, rlCreated,
                  term, suggestions, lastLine, linesRead, selection, runCommand,
                  runArgs, runCount, raised, stderr, exitCode >>

\* main resumes with what promptForCommand returned.
mainAfterPrompt ==
  /\ pc = "prompted"
  /\ IF selection = NotFound
     THEN /\ pc' = "done"
          /\ UNCHANGED << runCommand, runArgs, runCount >>
     ELSE executeCommand(selection, <<>>)
  /\ out' = <<>>
  /\ UNCHANGED << call, args, stdinIsTTY, stdoutIsTTY, definitions, files, rlOpen,
                  rlCreated, term, suggestions, lastLine, linesRead, inputEnded, selection,
                  raised, stderr, exitCode >>

(* ---------------------------------------------------------------------- *)
(* Commands                                                                *)
(* ---------------------------------------------------------------------- *)

\* The checks of init without the one for an existing Taskfile.yml.
initErrorUnguarded(commandArgs, f) ==
  IF Len(commandArgs) > 0 THEN "Unexpected arguments for init"
  ELSE IF f.packageJson = "missing" THEN "package.json not found in the current directory."
  ELSE IF f.packageJson = "unreadable" THEN "Unable to read package.json"
  ELSE IF f.packageJson = "invalid" THEN "package.json is not valid JSON"
  ELSE IF f.packageJson \in {"nodev", "blankdev"} THEN "No dev script found in package.json."
  ELSE IF ~f.writable THEN "Failed to write Taskfile.yml"
  ELSE "none"

\* The error init raises, "none" when it raises none: the checks of the run
\* of init and of handleInit, in their order.
initError(commandArgs, f) ==
  IF Len(commandArgs) > 0 THEN "Unexpected arguments for init"
  ELSE IF f.packageJson = "missing" THEN "package.json not found in the current directory."
  ELSE IF f.packageJson = "unreadable" THEN "Unable to read package.json"
  ELSE IF f.packageJson = "invalid" THEN "package.json is not valid JSON"
  ELSE IF f.packageJson \in {"nodev", "blankdev"} THEN "No dev script found in package.json."
  ELSE IF f.taskfile # "absent" THEN "Taskfile.yml already exists. Aborting to avoid overwriting."
  ELSE IF ~f.writable THEN "Failed to write Taskfile.yml"
  ELSE "none"

\* process.exitCode = 1 in the catch block of main.
exitCodeAfterCatch(code) == FailureExitCode

\* The awaited run completes without raising; main returns.
runReturns ==
  /\ pc = "running"
  /\ \/ /\ runCommand.run = "init"
        /\ initError(runArgs, files) = "none"
        /\ files' = [files EXCEPT !.taskfile = "created", !.writes = @ + 1]
        /\ out' = <<Line("created", 0, <<>>)>>
     \/ /\ runCommand.run = "opaque"
        /\ out' = <<>>
        /\ UNCHANGED files
  /\ pc' = "done"
  /\ UNCHANGED << call, args, stdinIsTTY, stdoutIsTTY, definitions, rlOpen, rlCreated,
                  term, suggestions, lastLine, linesRead, inputEnded, selection, runCommand,
                  runArgs, runCount, raised, stderr, exitCode >>

\* The awaited run raises; the catch block of main prints the message and
\* sets the exit code.  A failed write is a call of writeFileSync all the same.
runThrows ==
  /\ pc = "running"
  /\ \E message \in {initError(runArgs, files), "command failed"} :
       /\ \/ runCommand.run = "init" /\ message = initError(runArgs, files) /\ message # "none"
          \/ runCommand.run = "opaque" /\ message = "command failed"
       /\ stderr' = Append(stderr, Line(message, 0, <<>>))
       /\ files' = IF runCommand.run = "init" /\ message = "Failed to write Taskfile.yml"
                   THEN [files EXCEPT !.writes = @ + 1]
                   ELSE files
  /\ raised' = TRUE
  /\ exitCode' = exitCodeAfterCatch(exitCode)
  /\ out' = <<>>
  /\ pc' = "done"
  /\ UNCHANGED << call, args, stdinIsTTY, stdoutIsTTY, definitions, rlOpen,
                  rlCreated, term, suggestions, lastLine, linesRead, inputEnded, selection,
                  runCommand, runArgs, runCount >>

Next ==
  \/ mainNotInteractive
  \/ promptForCommand
  \/ mainVersion
  \/ mainHelpFlag
  \/ mainHelpCommand
  \/ mainUnknownCommand
  \/ mainCommandHelp
  \/ mainExecute
  \/ questionQuery
  \/ questionSelection
  \/ inputClosed
  \/ mainAfterPrompt
  \/ runReturns
  \/ runThrows

Spec == Init /\ [][Next]_vars

(* ---------------------------------------------------------------------- *)
(* The functions of the resolver applied on their own                      *)
(* ---------------------------------------------------------------------- *)

\* Longest query handed to fuzzyScore.
MaxQueryLen == 3

\* Longest candidate text handed to fuzzyScore.
MaxTextLen == 4

upperOf ==
  [c \in {LowerAlphabet[i] : i \in 1..26} |->
     UpperAlphabet[CHOOSE i \in 1..26 : LowerAlphabet[i] = c]]

\* Every way of writing s in upper and lower case.
RECURSIVE caseVariants(_)
caseVariants(s) ==
  IF s = <<>> THEN {<<>>}
  ELSE LET l == toLowerChar(Head(s))
           heads == IF l \in DOMAIN upperOf THEN {l, upperOf[l]} ELSE {l}
       IN  {<<c>> \o v : c \in heads, v \in caseVariants(Tail(s))}

\* Every string over the alphabet of at most n characters.
stringsUpTo(alphabet, n) == UNION {[1..k -> alphabet] : k \in 0..n}

\* Every order the descriptors can be registered in.
registrationOrders(list) ==
  {[i \in 1..Len(list) |-> list[f[i]]] :
     f \in {g \in [1..Len(list) -> 1..Len(list)] :
              \A i, j \in 1..Len(list) : g[i] = g[j] => i = j}}

\* Commands whose names and aliases are written with capitals.
RegistryMixedCase ==
  << Descriptor(<<"B","u","i","l","d">>, <<"x"," ","o","n","e">>, <<<<"B">>, <<"m","k">>>>),
     Descriptor(<<"a","l","p","h","a">>, <<"x"," ","t","w","o">>, <<<<"N","e","w">>>>),
     Descriptor(<<"G","a","m","m","a">>, <<"x">>, <<>>),
     Descriptor(<<"d","e","l","t","a">>, <<"x"," ","q">>, <<>>) >>

\* The inputs of findCommand: every spelling of every name and alias of the
\* registry, and some strings that name nothing.
findInputs(registry) ==
  UNION {caseVariants(registry[i].name) : i \in 1..Len(registry)}
  \cup UNION {UNION {caseVariants(registry[i].aliases[k]) :
                       k \in 1..Len(registry[i].aliases)} :
                i \in 1..Len(registry)}
  \cup { <<>>, <<"x">>, <<"i","n","i">>, <<"i","n","i","t","x">> }

\* The queries handed to rankCommands and suggestClosestCommand.
RankQueries ==
  { <<>>,
    <<" ">>,
    <<"x">>,
    <<"a">>,
    <<"a"," ","x">>,
    <<"x"," ","q">>,
    <<" ","X"," "," ","q"," ">>,
    <<"z","z">>,
    <<"i","n">>,
    <<"i">>,
    <<"d","e","p","s">>,
    <<"x"," ","z","z">> }

RankRegistries ==
  registrationOrders(RegistryMixedCase) \cup registrationOrders(commands \o RegistryTwo)

Call(op, query, text, registry) ==
  [op |-> op, query |-> query, text |-> text, registry |-> registry,
   returned |-> FALSE, found |-> NotFound, ranked |-> <<>>, score |-> 0]

\* The applications: of findCommand, rankCommands, suggestClosestCommand and
\* fuzzyScore, each to inputs of its own.
Calls ==
  UNION {{Call("findCommand", q, <<>>, r) : q \in findInputs(r)} :
           r \in {commands, RegistrySix, RegistryMixedCase}}
  \cup {Call("rankCommands", q, <<>>, r) : q \in RankQueries, r \in RankRegistries}
  \cup {Call("suggestClosestCommand", q, <<>>, r) :
          q \in RankQueries, r \in {commands, RegistryMixedCase, <<>>}}
  \cup {Call("fuzzyScore", q, c, <<>>) :
          q \in stringsUpTo({"a", "b", "A", " "}, MaxQueryLen),
          c \in stringsUpTo({"a", "b", " "}, MaxTextLen)}

\* One function is to be applied; main does not run.
InitResolver ==
  /\ call \in Calls
  /\ args = <<>>
  /\ stdinIsTTY = FALSE
  /\ stdoutIsTTY = FALSE
  /\ definitions = <<>>
  /\ files = [packageJson |-> "missing", taskfile |-> "absent", writable |-> TRUE, writes |-> 0]
  /\ pc = "resolver"
  /\ rlOpen = FALSE
  /\ rlCreated = 0
  /\ term = <<>>
  /\ suggestions = <<>>
  /\ lastLine = <<>>
  /\ linesRead = 0
  /\ inputEnded = FALSE
  /\ selection = NotFound
  /\ runCommand = NotFound
  /\ runArgs = <<>>
  /\ runCount = 0
  /\ raised = FALSE
  /\ out = <<>>
  /\ stderr = <<>>
  /\ exitCode = 0

mainVars ==
  << args, stdinIsTTY, stdoutIsTTY, definitions, files, pc, rlOpen, rlCreated,
     term, suggestions, lastLine, linesRead, inputEnded, selection, runCommand,
     runArgs, runCount, raised, out, stderr, exitCode >>

applyFindCommand ==
  /\ call.op = "findCommand"
  /\ ~call.returned
  /\ call' = [call EXCEPT !.returned = TRUE,
                          !.found = findCommand(call.query, call.registry)]
  /\ UNCHANGED mainVars

applyRankCommands ==
  /\ call.op = "rankCommands"
  /\ ~call.returned
  /\ call' = [call EXCEPT !.returned = TRUE,
                          !.ranked = rankCommands(call.query, call.registry)]
  /\ UNCHANGED mainVars

applySuggestClosestCommand ==
  /\ call.op = "suggestClosestCommand"
  /\ ~call.returned
  /\ call' = [call EXCEPT !.returned = TRUE,
                          !.found = suggestClosestCommand(call.query, call.registry)]
  /\ UNCHANGED mainVars

applyFuzzyScore ==
  /\ call.op = "fuzzyScore"
  /\ ~call.returned
  /\ call' = [call EXCEPT !.returned = TRUE,
                          !.score = fuzzyScore(call.query, call.text)]
  /\ UNCHANGED mainVars

NextResolver ==
  \/ applyFindCommand
  \/ applyRankCommands
  \/ applySuggestClosestCommand
  \/ applyFuzzyScore

SpecResolver == InitResolver /\ [][NextResolver]_vars

(* ---------------------------------------------------------------------- *)
(* Properties                                                              *)
(* ---------------------------------------------------------------------- *)

\* A question was answered with a line in this step.
lineWasRead == linesRead' = linesRead + 1

\* The line is empty or consists of whitespace only.
isBlank(line) == \A i \in 1..Len(line) : isWhitespace(line[i])

\* The descriptor is an entry of the registry.
isRegistered(command) == \E i \in 1..Len(definitions) : definitions[i] = command

\* The trimmed line is written as a decimal integer between 1 and n.
isNumberWithin(line, n) ==
  LET t == trim(line)
  IN  /\ t # <<>>
      /\ \A i \in 1..Len(t) : isDigit(t[i])
      /\ digitsValue(t, 0) >= 1
      /\ digitsValue(t, 0) <= n

\* What the query of a non-blank line leads to, by the number of candidates
\* rankCommands returns for it.
afterQuery(line) ==
  LET ranked == rankCommands(trim(line), definitions)
      count  == Len(ranked)
      shown  == IF count < 5 THEN count ELSE 5
  IN  /\ count = 0 =>
           /\ pc' = "awaitQuery"
           /\ out' = <<Line("no match", 0, <<>>)>>
           /\ rlOpen'
           /\ selection' = NotFound
      /\ count = 1 =>
           /\ pc' = "prompted"
           /\ selection' = ranked[1].command
           /\ out' = <<>>
      /\ count > 1 =>
           /\ pc' = "awaitSelection"
           /\ Len(suggestions') = shown
           /\ shown >= 2 /\ shown <= 5
           /\ \A i \in 1..shown : suggestions'[i] = ranked[i]
           /\ Len(out') = shown + 1
           /\ \A i \in 1..shown : out'[i + 1] = Line("match", i, ranked[i].command.name)
           /\ selection' = NotFound

\* C1: every non-blank line entered at the query prompt leads, by the number
\* of candidates rank returns, to no-match feedback and the query prompt again
\* (none), to the end of the selection with that descriptor (one), or to the
\* first min(5, count) candidates presented in rank order, numbered from 1,
\* and the selection prompt (more); a presented list has 2 to 5 entries.
C1_QueryTurn ==
  [][(pc = "awaitQuery" /\ lineWasRead /\ ~isBlank(lastLine')) => afterQuery(lastLine')]_vars

\* A list of five was presented out of six candidates.
C1_Witness ==
  /\ pc = "awaitSelection"
  /\ Len(suggestions) = 5
  /\ Len(rankCommands(term, definitions)) = 6

\* C2: while a list of n candidates is presented, a non-blank line that is no
\* integer within 1..n produces the invalid-selection feedback, chooses no
\* command and leaves the selector waiting for a selection from the same list.
C2_InvalidSelectionStays ==
  [][(/\ pc = "awaitSelection"
      /\ lineWasRead
      /\ ~isBlank(lastLine')
      /\ ~isNumberWithin(lastLine', Len(suggestions)))
     => (/\ pc' = "awaitSelection"
         /\ suggestions' = suggestions
         /\ selection' = NotFound
         /\ out' = <<Line("invalid selection", 0, <<>>)>>)]_vars

\* C3: a line that parses as an integer k within 1..n ends the selection with
\* the k-th presented candidate, which is the k-th entry of rank for the most
\* recent query and an entry of the registry.
C3_SelectionChooses ==
  [][(/\ pc = "awaitSelection"
      /\ lineWasRead
      /\ isInteger(parseInt(trim(lastLine')))
      /\ parseInt(trim(lastLine')).value \in 1..Len(suggestions))
     => LET k == parseInt(trim(lastLine')).value
        IN  /\ Len(suggestions) >= 2 /\ Len(suggestions) <= 5
            /\ pc' = "prompted"
            /\ selection' = suggestions[k].command
            /\ selection' = rankCommands(term, definitions)[k].command
            /\ isRegistered(selection')]_vars

\* The second presented candidate was chosen by its number.
C3_Witness ==
  /\ pc = "prompted"
  /\ isInteger(parseInt(lastLine))
  /\ parseInt(lastLine).value = 2
  /\ Len(rankCommands(term, definitions)) >= 2
  /\ selection = rankCommands(term, definitions)[2].command

\* C4: a blank line at the query prompt, after any earlier turns, ends the
\* selection without a descriptor; main then ends without invoking a run,
\* without printing anything, and with exit code 0.
C4_EmptyQueryCancels ==
  [][/\ (pc = "awaitQuery" /\ lineWasRead /\ isBlank(lastLine'))
        => (/\ pc' = "prompted"
            /\ selection' = NotFound
            /\ out' = <<>>
            /\ UNCHANGED << runCount, stderr, exitCode >>)
     /\ (pc = "prompted" /\ selection = NotFound)
        => (/\ pc' = "done"
            /\ runCount' = 0
            /\ out' = <<>>
            /\ stderr' = <<>>
            /\ exitCode' = 0)]_vars

\* A session was cancelled by a blank line after a query and a selection turn.
C4_Witness ==
  /\ pc = "done"
  /\ linesRead >= 3
  /\ isBlank(lastLine)
  /\ selection = NotFound
  /\ runCount = 0
  /\ exitCode = 0

\* C5: the end of the input stream at the query prompt acts as a blank line:
\* the pending read completes and promptForCommand returns no descriptor.
C5_ClosureCancels ==
  [][(pc = "awaitQuery" /\ ~inputEnded /\ inputEnded')
     => (pc' = "prompted" /\ selection' = NotFound)]_vars

\* C6: the readline interface is created at most once, exactly once in a
\* session that asks a question, and it is closed whenever promptForCommand
\* has returned, hence before a chosen command's run is invoked.
C6_ChannelReleased ==
  /\ rlCreated <= 1
  /\ (pc \in {"awaitQuery", "awaitSelection"} \/ linesRead > 0) => rlCreated = 1
  /\ pc \in {"awaitQuery", "awaitSelection"} => rlOpen
  /\ pc \in {"prompted", "running", "done"} => ~rlOpen
  /\ runCount > 0 => ~rlOpen

\* The run of a command chosen in a session is being awaited.
C6_Witness ==
  /\ pc = "running"
  /\ rlCreated = 1
  /\ linesRead >= 2
  /\ ~rlOpen

\* C7: when a run raises, on the direct or on the interactive path, main ends
\* normally with the one message on the error stream and exit code 1.
C7_RunErrorCaught ==
  raised =>
    /\ pc = "done"
    /\ runCount = 1
    /\ exitCode = 1
    /\ Len(stderr) = 1
    /\ stderr[1].kind = (IF runCommand.run = "init"
                         THEN initError(runArgs, files)
                         ELSE "command failed")

\* The run of a command chosen in a session raised.
C7_Witness ==
  /\ raised
  /\ pc = "done"
  /\ Len(args) = 0
  /\ linesRead >= 1
  /\ runArgs = <<>>

\* The name main looks up in the registry, when it looks one up.
looksUpName ==
  \/ isHelpCommand(args) /\ Len(args) >= 2 /\ args[2] # <<>>
  \/ isCommandLine(args)

lookedUpName == IF isHelpCommand(args) THEN args[2] ELSE args[1]

nameNotFound == looksUpName /\ findCommand(lookedUpName, definitions) = NotFound

\* C8: at the end of main the exit code is 1 exactly when the command name
\* (the first argument or the target of help) was not found or a run raised,
\* and 0 otherwise; when the name is not found no run is invoked.
C8_ExitCode ==
  /\ exitCode \in {0, 1}
  /\ pc = "done" => (exitCode = 1 <=> (nameNotFound \/ raised))
  /\ pc # "done" => exitCode = 0
  /\ nameNotFound => runCount = 0

\* main ended with exit code 1 for an unknown help target.
C8_Witness ==
  /\ pc = "done"
  /\ exitCode = 1
  /\ ~raised
  /\ isHelpCommand(args)
  /\ nameNotFound

isHelpOption(value) == value = <<"-","-","h","e","l","p">> \/ value = <<"-","h">>

\* C9: when the first argument names a registered command, --help or -h at
\* any position among the remaining arguments gives that command's help, exit
\* code 0 and no run; without one, run is invoked with exactly the remaining
\* arguments in their order.
C9_CommandHelpOrRun ==
  (/\ pc # "start"
   /\ Len(args) >= 1
   /\ findCommand(args[1], definitions) # NotFound)
  => IF \E i \in 2..Len(args) : isHelpOption(args[i])
     THEN /\ pc = "done"
          /\ out = printCommandHelp(findCommand(args[1], definitions))
          /\ exitCode = 0
          /\ runCount = 0
     ELSE /\ runCount = 1
          /\ runCommand = findCommand(args[1], definitions)
          /\ runArgs = [i \in 1..(Len(args) - 1) |-> args[i + 1]]

\* Help was printed for a command whose help option is not its first argument.
C9_Witness ==
  /\ pc = "done"
  /\ Len(args) = 3
  /\ ~isHelpOption(args[2])
  /\ isHelpOption(args[3])
  /\ findCommand(args[1], definitions) # NotFound
  /\ runCount = 0

\* C10: a question is asked only with zero arguments, a terminal on both
\* streams and a registry that is not empty; with zero arguments and no such
\* terminal main prints general help and ends with exit code 0 without reading
\* a line; with an empty registry promptForCommand returns no descriptor
\* without creating the interface.
C10_WhenPrompted ==
  /\ (pc \in {"awaitQuery", "awaitSelection"} \/ rlCreated > 0 \/ linesRead > 0)
     => (Len(args) = 0 /\ stdinIsTTY /\ stdoutIsTTY /\ definitions # <<>>)
  /\ (pc # "start" /\ Len(args) = 0 /\ ~(stdinIsTTY /\ stdoutIsTTY))
     => (/\ pc = "done"
         /\ out = printGeneralHelp
         /\ exitCode = 0
         /\ linesRead = 0
         /\ rlCreated = 0)
  /\ (pc # "start" /\ Len(args) = 0 /\ stdinIsTTY /\ stdoutIsTTY /\ definitions = <<>>)
     => (/\ pc \in {"prompted", "done"}
         /\ selection = NotFound
         /\ rlCreated = 0
         /\ linesRead = 0
         /\ out = <<>>)

\* The first question of a session is pending.
C10_Witness ==
  /\ pc = "awaitQuery"
  /\ linesRead = 0
  /\ rlCreated = 1
  /\ Len(args) = 0

\* C16 as stated: a run that ends with exit code 1 wrote exactly one line to
\* the error stream, and a run that ends with exit code 0 wrote none.
C16_OneErrorLine ==
  pc = "done" =>
    /\ exitCode = 1 => Len(stderr) = 1
    /\ exitCode = 0 => Len(stderr) = 0

\* C16 amended: a run that ends with exit code 0 wrote nothing to the error
\* stream; one that ends with exit code 1 wrote one line, or, when the name
\* was not found and some command matches it, two: the unknown-command line
\* and the suggestion.
C16_ErrorLines ==
  pc = "done" =>
    /\ exitCode = 0 => stderr = <<>>
    /\ exitCode = 1 =>
         IF nameNotFound /\ rankCommands(lookedUpName, definitions) # <<>>
         THEN /\ Len(stderr) = 2
              /\ stderr[1] = Line("Unknown command", 0, lookedUpName)
              /\ stderr[2].kind = "Did you mean"
         ELSE Len(stderr) = 1

\* An unknown command was reported together with a suggestion.
C16_Witness ==
  /\ pc = "done"
  /\ exitCode = 1
  /\ nameNotFound
  /\ Len(stderr) = 2

\* C17: a blank line under a presented list chooses no command and takes the
\* selector back to the query prompt; the list is dropped, so the next line is
\* a new query.
C17_EmptySelectionRefines ==
  [][(pc = "awaitSelection" /\ lineWasRead /\ isBlank(lastLine'))
     => (/\ pc' = "awaitQuery"
         /\ suggestions' = <<>>
         /\ selection' = NotFound
         /\ rlOpen'
         /\ UNCHANGED << runCount, stderr, exitCode >>)]_vars

\* The query prompt is pending again after a blank answer to a presented list.
C17_Witness ==
  /\ pc = "awaitQuery"
  /\ linesRead = 2
  /\ isBlank(lastLine)
  /\ Len(rankCommands(term, definitions)) >= 2
  /\ suggestions = <<>>

\* main ends on a path that invokes no run: version, help, unknown name, or a
\* selection without a descriptor.
isPathWithoutRun ==
  \/ isVersionFlag(args)
  \/ isHelpFlag(args)
  \/ isHelpCommand(args)
  \/ nameNotFound
  \/ Len(args) >= 2 /\ \E i \in 2..Len(args) : isHelpOption(args[i])
  \/ Len(args) = 0 /\ ~(stdinIsTTY /\ stdoutIsTTY)
  \/ Len(args) = 0 /\ pc = "done" /\ selection = NotFound

\* C18: at most one run is invoked, once, with a descriptor of the registry
\* that findCommand gave for the first argument (with the remaining arguments)
\* or that promptForCommand returned (with no arguments); no run is invoked on
\* the help, version, unknown-command and cancelled paths.
C18_OneRun ==
  /\ runCount \in {0, 1}
  /\ runCount = 0 => runCommand = NotFound
  /\ runCount = 1 =>
       /\ isRegistered(runCommand)
       /\ \/ /\ isCommandLine(args)
             /\ runCommand = findCommand(args[1], definitions)
          \/ /\ Len(args) = 0
             /\ pc \in {"running", "done"}
             /\ runCommand = selection
             /\ linesRead >= 1
             /\ runArgs = <<>>
  /\ isPathWithoutRun => runCount = 0

\* A run was invoked for a descriptor chosen in a session.
C18_Witness ==
  /\ runCount = 1
  /\ Len(args) = 0
  /\ runCommand = selection
  /\ pc = "done"

\* The conditions as the claim words them: there is an argument, package.json
\* is missing, unreadable, not JSON or has no non-empty string as dev script,
\* or Taskfile.yml is there.  A dev script of whitespace only is a non-empty
\* string.
initBlockedAsStated(commandArgs, f) ==
  \/ Len(commandArgs) > 0
  \/ f.packageJson \in {"missing", "unreadable", "invalid", "nodev"}
  \/ f.taskfile # "absent"

\* C19 as stated: an existing Taskfile.yml is never changed; when init is
\* invoked with an argument, without a package.json that has a non-empty
\* string as dev script, or with Taskfile.yml there, it raises (exit code 1)
\* without writing; otherwise it writes exactly once.
C19_InitWritesNonEmptyDev ==
  [][/\ files.taskfile = "existing" => files' = files
     /\ files' # files
        => (/\ pc = "running"
            /\ runCommand.run = "init"
            /\ ~initBlockedAsStated(runArgs, files)
            /\ files.writes = 0
            /\ files'.writes = 1)
     /\ (pc = "running" /\ runCommand.run = "init" /\ initBlockedAsStated(runArgs, files))
        => (/\ pc' = "done"
            /\ raised'
            /\ exitCode' = 1
            /\ files' = files)
     /\ (pc = "running" /\ runCommand.run = "init" /\ ~initBlockedAsStated(runArgs, files))
        => (pc' = "done" /\ files'.writes = 1)]_vars

\* init raises before it writes: there is an argument, package.json has no
\* dev script with a character other than whitespace, or Taskfile.yml is
\* there.
initBlocked(commandArgs, f) ==
  \/ Len(commandArgs) > 0
  \/ f.packageJson # "ok"
  \/ f.taskfile # "absent"

\* C19 amended: an existing Taskfile.yml is never changed; when init is
\* invoked with an argument, without a package.json whose dev script is a
\* string with a character other than whitespace, or with Taskfile.yml there,
\* it raises (exit code 1) without writing; otherwise it calls the write
\* exactly once, raising (exit code 1) when that write fails; and nothing else
\* writes.
C19_InitWrites ==
  [][/\ files.taskfile = "existing" => files' = files
     /\ files' # files
        => (/\ pc = "running"
            /\ runCommand.run = "init"
            /\ ~initBlocked(runArgs, files)
            /\ files.writes = 0
            /\ files'.writes = 1)
     /\ (pc = "running" /\ runCommand.run = "init" /\ initBlocked(runArgs, files))
        => (/\ pc' = "done"
            /\ raised'
            /\ exitCode' = 1
            /\ files' = files)
     /\ (pc = "running" /\ runCommand.run = "init" /\ ~initBlocked(runArgs, files))
        => (/\ pc' = "done"
            /\ files'.writes = 1
            /\ files.writable => (~raised' /\ files'.taskfile = "created")
            /\ ~files.writable => (raised' /\ exitCode' = 1 /\ files'.taskfile = "absent"))]_vars

\* init raised because Taskfile.yml was there, and left it alone.
C19_Witness ==
  /\ pc = "done"
  /\ raised
  /\ runCommand.run = "init"
  /\ runArgs = <<>>
  /\ files.packageJson = "ok"
  /\ files.taskfile = "existing"
  /\ files.writes = 0

(* ---------------------------------------------------------------------- *)
(* Properties of the resolver                                              *)
(* ---------------------------------------------------------------------- *)

\* The two strings are equal when case is disregarded.
equalIgnoringCase(a, b) ==
  Len(a) = Len(b) /\ \A i \in 1..Len(a) : toLowerChar(a[i]) = toLowerChar(b[i])

\* The descriptor has the string as its name or as an alias, case disregarded.
isNamed(command, input) ==
  \/ equalIgnoringCase(command.name, input)
  \/ \E k \in 1..Len(command.aliases) : equalIgnoringCase(command.aliases[k], input)

\* C11: findCommand returns the descriptor that has the input as its name or
\* alias in any capitalisation, of the input and of the registry, and
\* not-found when no descriptor has.
C11_FindExact ==
  (call.op = "findCommand" /\ call.returned) =>
    IF \E i \in 1..Len(call.registry) : isNamed(call.registry[i], call.query)
    THEN /\ call.found # NotFound
         /\ isNamed(call.found, call.query)
    ELSE call.found = NotFound

letterIndex(c) == CHOOSE i \in 1..26 : LowerAlphabet[i] = toLowerChar(c)

\* a comes before b in the alphabet, case disregarded.
RECURSIVE precedesIgnoringCase(_, _)
precedesIgnoringCase(a, b) ==
  IF b = <<>> THEN FALSE
  ELSE IF a = <<>> THEN TRUE
  ELSE IF letterIndex(Head(a)) # letterIndex(Head(b))
       THEN letterIndex(Head(a)) < letterIndex(Head(b))
       ELSE precedesIgnoringCase(Tail(a), Tail(b))

\* C12: the candidates of rankCommands are in descending order of score and,
\* among equal scores, in ascending order of name with case disregarded; the
\* result is the same for every registration order of the same descriptors.
C12_RankOrder ==
  (call.op = "rankCommands" /\ call.returned) =>
    /\ \A i \in 1..(Len(call.ranked) - 1) :
         \/ call.ranked[i].score > call.ranked[i + 1].score
         \/ /\ call.ranked[i].score = call.ranked[i + 1].score
            /\ precedesIgnoringCase(call.ranked[i].command.name,
                                    call.ranked[i + 1].command.name)
    /\ \A other \in registrationOrders(call.registry) :
         rankCommands(call.query, other) = call.ranked

\* Candidates with equal scores were put in the order of their names, which
\* is not the order of their registration.
C12_Witness ==
  /\ call.op = "rankCommands"
  /\ call.returned
  /\ Len(call.ranked) >= 3
  /\ call.ranked[1].score = call.ranked[2].score
  /\ call.ranked[1].command # call.registry[1]
  /\ \E i \in 1..Len(call.ranked) : toLowerCase(call.ranked[i].command.name) # call.ranked[i].command.name

RECURSIVE sumOfScores(_, _)
sumOfScores(tokens, text) ==
  IF tokens = <<>> THEN 0
  ELSE fuzzyScore(Head(tokens), text) + sumOfScores(Tail(tokens), text)

\* The tokens of the query: lower-cased, separated by whitespace.
tokensOf(query) == splitTokens(toLowerCase(query), <<>>)

\* Every token matches the search text of the descriptor.
allTokensMatch(query, command) ==
  \A k \in 1..Len(tokensOf(query)) :
    fuzzyScore(tokensOf(query)[k], buildSearchText(command)) >= 0

\* C13: rankCommands includes exactly the descriptors whose search text every
\* token of the query matches, each with the sum of its per-token scores; a
\* query without tokens gives the empty sequence; suggestClosestCommand
\* returns the first entry of rankCommands, or none when there is no entry.
C13_RankIncludes ==
  /\ (call.op = "rankCommands" /\ call.returned) =>
       IF tokensOf(call.query) = <<>>
       THEN call.ranked = <<>>
       ELSE /\ \A i \in 1..Len(call.registry) :
                 allTokensMatch(call.query, call.registry[i])
                 <=> \E j \in 1..Len(call.ranked) : call.ranked[j].command = call.registry[i]
            /\ \A j \in 1..Len(call.ranked) :
                 /\ \E i \in 1..Len(call.registry) : call.registry[i] = call.ranked[j].command
                 /\ call.ranked[j].score =
                      sumOfScores(tokensOf(call.query), buildSearchText(call.ranked[j].command))
            /\ \A j, k \in 1..Len(call.ranked) :
                 call.ranked[j].command = call.ranked[k].command => j = k
  /\ (call.op = "suggestClosestCommand" /\ call.returned) =>
       IF rankCommands(call.query, call.registry) = <<>>
       THEN call.found = NotFound
       ELSE call.found = rankCommands(call.query, call.registry)[1].command

\* A query of two tokens left out a descriptor that only one token matches.
C13_Witness ==
  /\ call.op = "rankCommands"
  /\ call.returned
  /\ Len(tokensOf(call.query)) = 2
  /\ Len(call.ranked) >= 1
  /\ \E i \in 1..Len(call.registry) :
       /\ fuzzyScore(tokensOf(call.query)[1], buildSearchText(call.registry[i])) >= 0
       /\ fuzzyScore(tokensOf(call.query)[2], buildSearchText(call.registry[i])) < 0

isLowerCase(s) == toLowerCase(s) = s

\* C14 as stated: the score of a non-empty lower-case string against itself
\* is twice its length.
C14_SelfScore ==
  (/\ call.op = "fuzzyScore"
   /\ call.returned
   /\ call.query # <<>>
   /\ isLowerCase(call.query)
   /\ call.text = call.query)
  => call.score = 2 * Len(call.query)

\* C14 amended: the score of a non-empty lower-case string without whitespace
\* against itself is twice its length, and no query scores more than twice its
\* length against any candidate.
C14_SelfScoreNoWhitespace ==
  (call.op = "fuzzyScore" /\ call.returned) =>
    /\ call.score <= 2 * Len(call.query)
    /\ (/\ call.query # <<>>
        /\ isLowerCase(call.query)
        /\ \A i \in 1..Len(call.query) : ~isWhitespace(call.query[i])
        /\ call.text = call.query)
       => call.score = 2 * Len(call.query)

\* A string of three characters was scored against itself.
C14_Witness ==
  /\ call.op = "fuzzyScore"
  /\ call.returned
  /\ Len(call.query) = 3
  /\ call.text = call.query
  /\ call.score = 6

\* The characters of q occur in c in their order.
RECURSIVE isSubsequence(_, _)
isSubsequence(q, c) ==
  \/ q = <<>>
  \/ /\ c # <<>>
     /\ \/ Head(q) = Head(c) /\ isSubsequence(Tail(q), Tail(c))
        \/ isSubsequence(q, Tail(c))

\* C15: fuzzyScore gives -1 exactly when the query, lower-cased and without
\* its whitespace, is empty or is no subsequence of the candidate text;
\* otherwise a score between the length L of that query and 2L.
C15_MatchIffSubsequence ==
  (call.op = "fuzzyScore" /\ call.returned) =>
    LET normalized == stripWhitespace(toLowerCase(call.query))
        noMatch == normalized = <<>> \/ ~isSubsequence(normalized, call.text)
    IN  /\ call.score = -1 <=> noMatch
        /\ ~noMatch => (call.score >= Len(normalized) /\ call.score <= 2 * Len(normalized))

\* A query matched with a gap: more than L and less than 2L.
C15_Witness ==
  /\ call.op = "fuzzyScore"
  /\ call.returned
  /\ Len(stripWhitespace(call.query)) = 3
  /\ call.score > 3
  /\ call.score < 6

====
